---------------------------- MODULE Spec2Model ----------------------------
(***************************************************************************)
(* yajsv: validation of a batch of JSON / YAML documents against a schema. *)
(*                                                                         *)
(* One next-state relation, realMain, and four specifications that differ  *)
(* in the command lines and files they start from:                         *)
(*   Spec        the goroutine-per-document pool bounded by the `sem`      *)
(*               channel, the unsynchronised appends to `failures` /       *)
(*               `errors`, the summary and the exit code.                  *)
(*   FairSpec    Spec under fair scheduling, for termination.              *)
(*   SpecCharset jsonLoader / jsonDecodeCharset over bounded byte buffers  *)
(*               and over the buffers gen_testdata.go writes.              *)
(*   SpecSetup   the command line: -v, -s, -r, -l, patterns without a      *)
(*               match, schemas that do not load or compile.               *)
(* One fmt.Fprintln on w is one write, as on the os.Stdout of main().      *)
(***************************************************************************)
EXTENDS Integers, Sequences, FiniteSets, TLC

(***************************************************************************)
(* Bounds of the model.                                                    *)
(***************************************************************************)
\* Longest document list handed to realMain.
MaxDocs == 3
\* Capacity of the `sem` channel; stands for runtime.GOMAXPROCS(0)+10.
SemCap == 2
\* Longest raw byte buffer enumerated for jsonDecodeCharset.
MaxLen == 3
\* Longest text (in code points) that gen_testdata.go encodes.
MaxText == 2

(***************************************************************************)
(* Bytes, code points, UTF-8 and UTF-16 (golang.org/x/text, unicode/utf8). *)
(***************************************************************************)
bomUTF8 == <<239, 187, 191>>

bomUTF16BE == <<254, 255>>

bomUTF16LE == <<255, 254>>

\* utf8.RuneError, U+FFFD
RuneError == 65533

HasPrefix(buf, p) == Len(buf) >= Len(p) /\ SubSeq(buf, 1, Len(p)) = p

Drop(buf, n) == SubSeq(buf, n + 1, Len(buf))

IsSurrogate(r) == 55296 <= r /\ r < 57344

\* utf8.EncodeRune: surrogates and out-of-range values are written as U+FFFD.
EncodeRune(r) ==
    IF r < 0 \/ r > 1114111 \/ IsSurrogate(r)
    THEN <<239, 191, 189>>
    ELSE IF r < 128 THEN <<r>>
    ELSE IF r < 2048 THEN <<192 + (r \div 64), 128 + (r % 64)>>
    ELSE IF r < 65536
         THEN <<224 + (r \div 4096), 128 + ((r \div 64) % 64), 128 + (r % 64)>>
    ELSE <<240 + (r \div 262144), 128 + ((r \div 4096) % 64),
           128 + ((r \div 64) % 64), 128 + (r % 64)>>

\* One 16-bit code unit from two bytes, in the byte order of the encoding.
Unit(b1, b2, enc) == IF enc = "utf16be" THEN b1 * 256 + b2 ELSE b2 * 256 + b1

\* utf16.DecodeRune
DecodeSurrogates(r1, r2) ==
    IF 55296 <= r1 /\ r1 < 56320 /\ 56320 <= r2 /\ r2 < 57344
    THEN (r1 - 55296) * 1024 + (r2 - 56320) + 65536
    ELSE RuneError

\* The UTF-16 decoder with IgnoreBOM, run to the end of the input: two bytes per
\* code unit, a surrogate followed by a trail surrogate is combined, a lone
\* surrogate and a single trailing byte decode to U+FFFD.  It never fails.
RECURSIVE Utf16Decode(_, _)
Utf16Decode(buf, enc) ==
    IF Len(buf) = 0 THEN <<>>
    ELSE IF Len(buf) = 1 THEN EncodeRune(RuneError)
    ELSE LET x == Unit(buf[1], buf[2], enc)
             pair == /\ IsSurrogate(x)
                     /\ Len(buf) >= 4
                     /\ LET y == Unit(buf[3], buf[4], enc)
                        IN 56320 <= y /\ y <= 57343
         IN IF pair
            THEN EncodeRune(DecodeSurrogates(x, Unit(buf[3], buf[4], enc)))
                     \o Utf16Decode(Drop(buf, 4), enc)
            ELSE EncodeRune(x) \o Utf16Decode(Drop(buf, 2), enc)

\* utf8.DecodeRune on a buffer that starts with a well-formed sequence; any other
\* first byte decodes to (U+FFFD, 1).  The result is <<rune, size>>.
DecodeRune(buf) ==
    LET b == buf[1]
        cont(i) == Len(buf) >= i /\ 128 <= buf[i] /\ buf[i] < 192
    IN IF b < 128 THEN <<b, 1>>
       ELSE IF 194 <= b /\ b < 224 /\ cont(2)
            THEN <<(b - 192) * 64 + (buf[2] - 128), 2>>
       ELSE IF 224 <= b /\ b < 240 /\ cont(2) /\ cont(3)
            THEN <<(b - 224) * 4096 + (buf[2] - 128) * 64 + (buf[3] - 128), 3>>
       ELSE IF 240 <= b /\ b < 245 /\ cont(2) /\ cont(3) /\ cont(4)
            THEN <<(b - 240) * 262144 + (buf[2] - 128) * 4096
                     + (buf[3] - 128) * 64 + (buf[4] - 128), 4>>
       ELSE <<RuneError, 1>>

\* One code point as UTF-16 bytes (utf16.EncodeRune above U+FFFF).
EncodeUnits(r, enc) ==
    LET bytes(u) == IF enc = "utf16be" THEN <<u \div 256, u % 256>>
                    ELSE <<u % 256, u \div 256>>
    IN IF r < 65536 THEN bytes(r)
       ELSE bytes(55296 + ((r - 65536) \div 1024)) \o bytes(56320 + ((r - 65536) % 1024))

\* The UTF-16 encoder of gen_testdata.go: xform.enc.NewEncoder().Bytes(src).
RECURSIVE Utf16Encode(_, _)
Utf16Encode(src, enc) ==
    IF Len(src) = 0 THEN <<>>
    ELSE LET d == DecodeRune(src)
         IN EncodeUnits(d[1], enc) \o Utf16Encode(Drop(src, d[2]), enc)

\* The UTF-8 bytes of a sequence of code points.
RECURSIVE Utf8Bytes(_)
Utf8Bytes(runes) ==
    IF Len(runes) = 0 THEN <<>>
    ELSE EncodeRune(Head(runes)) \o Utf8Bytes(Tail(runes))

(***************************************************************************)
(* Results of the Go functions that return (value, error).                 *)
(***************************************************************************)
Ok(b) == [err |-> "", buf |-> b]

\* A returned error: the buffer is nil.
Fail(cause) == [err |-> cause, buf |-> <<>>]

(***************************************************************************)
(* jsonDecodeCharset                                                       *)
(***************************************************************************)
\* The BOM matched by the switch, <<>> when none.
DetectBOM(buf) ==
    IF HasPrefix(buf, bomUTF8) THEN bomUTF8
    ELSE IF HasPrefix(buf, bomUTF16BE) THEN bomUTF16BE
    ELSE IF HasPrefix(buf, bomUTF16LE) THEN bomUTF16LE
    ELSE <<>>

\* Mutant of DetectEnc: the zero byte at offset 1 is tested before the one at
\* offset 0.
DetectEncLEFirst(buf) ==
    IF HasPrefix(buf, bomUTF8) THEN "nil"
    ELSE IF HasPrefix(buf, bomUTF16BE) THEN "utf16be"
    ELSE IF HasPrefix(buf, bomUTF16LE) THEN "utf16le"
    ELSE IF buf[2] = 0 THEN "utf16le"
    ELSE IF buf[1] = 0 THEN "utf16be"
    ELSE "nil"

\* The decoder selected by the switch, "nil" when none.  Len(buf) >= 2.
DetectEnc(buf) ==
    IF HasPrefix(buf, bomUTF8) THEN "nil"
    ELSE IF HasPrefix(buf, bomUTF16BE) THEN "utf16be"
    ELSE IF HasPrefix(buf, bomUTF16LE) THEN "utf16le"
    ELSE IF buf[1] = 0 THEN "utf16be"
    ELSE IF buf[2] = 0 THEN "utf16le"
    ELSE "nil"

\* Mutant of jsonDecodeCharset: a BOM is skipped whether or not -b is set.
jsonDecodeCharsetNoCheck(buf, allowBOM) ==
    IF Len(buf) < 2 THEN Ok(buf)
    ELSE LET rest == Drop(buf, Len(DetectBOM(buf)))
             enc == DetectEnc(buf)
         IN IF enc # "nil" THEN Ok(Utf16Decode(rest, enc)) ELSE Ok(rest)

\* Mutant of jsonDecodeCharset: the BOM is checked but left in the buffer.
jsonDecodeCharsetKeepBOM(buf, allowBOM) ==
    IF Len(buf) < 2 THEN Ok(buf)
    ELSE LET enc == DetectEnc(buf)
         IN IF DetectBOM(buf) # <<>> /\ ~allowBOM
            THEN Fail("unexpected BOM")
            ELSE IF enc # "nil" THEN Ok(Utf16Decode(buf, enc)) ELSE Ok(buf)

\* Mutant of jsonDecodeCharset: two bytes are skipped for every BOM.
jsonDecodeCharsetSkipTwo(buf, allowBOM) ==
    IF Len(buf) < 2 THEN Ok(buf)
    ELSE LET bom == DetectBOM(buf)
             enc == DetectEnc(buf)
         IN IF bom # <<>> /\ ~allowBOM
            THEN Fail("unexpected BOM")
            ELSE LET rest == IF bom # <<>> THEN Drop(buf, 2) ELSE buf
                 IN IF enc # "nil" THEN Ok(Utf16Decode(rest, enc)) ELSE Ok(rest)

\* Mutant of jsonDecodeCharset: a single byte goes through the switch as well.
jsonDecodeCharsetNoShort(buf, allowBOM) ==
    IF Len(buf) = 0 THEN Ok(buf)
    ELSE IF Len(buf) = 1
         THEN IF buf[1] = 0 THEN Ok(Utf16Decode(buf, "utf16be")) ELSE Ok(buf)
    ELSE LET bom == DetectBOM(buf)
             enc == DetectEnc(buf)
         IN IF bom # <<>> /\ ~allowBOM
            THEN Fail("unexpected BOM")
            ELSE LET rest == Drop(buf, Len(bom))
                 IN IF enc # "nil" THEN Ok(Utf16Decode(rest, enc)) ELSE Ok(rest)

\* Mutant of jsonDecodeCharset: UTF-16 found by the zero bytes needs -b too.
jsonDecodeCharsetRejectHeuristic(buf, allowBOM) ==
    IF Len(buf) < 2 THEN Ok(buf)
    ELSE LET bom == DetectBOM(buf)
             enc == DetectEnc(buf)
         IN IF (bom # <<>> \/ enc # "nil") /\ ~allowBOM
            THEN Fail("unexpected BOM")
            ELSE LET rest == Drop(buf, Len(bom))
                 IN IF enc # "nil" THEN Ok(Utf16Decode(rest, enc)) ELSE Ok(rest)

jsonDecodeCharset(buf, allowBOM) ==
    IF Len(buf) < 2 THEN Ok(buf)
    ELSE LET bom == DetectBOM(buf)
             enc == DetectEnc(buf)
         IN IF bom # <<>> /\ ~allowBOM
            THEN Fail("unexpected BOM")
            ELSE LET rest == Drop(buf, Len(bom))
                 IN IF enc # "nil" THEN Ok(Utf16Decode(rest, enc)) ELSE Ok(rest)

(***************************************************************************)
(* The external collaborators: the YAML-to-JSON converter and the compiled *)
(* schema.  The schema of the test data is {"required":["foo"]}.           *)
(***************************************************************************)
\* {"foo":1}
DocFoo == <<123, 34, 102, 111, 111, 34, 58, 49, 125>>

\* {}
DocEmpty == <<123, 125>>

\* {"required":["foo"]}, abbreviated to its first bytes {"r
DocSchema == <<123, 34, 114>>

\* {"required":["foo","bar"]}, abbreviated to {"r2: a schema that a document
\* can violate twice.
DocSchema2 == <<123, 34, 114, 50>>

\* yaml.YAMLToJSON: the YAML reader honours a BOM (UTF-8 or UTF-16) and reads
\* BOM-less input as UTF-8; a flow mapping converts to the same JSON text.
YAMLToJSON(buf) ==
    LET text == IF HasPrefix(buf, bomUTF8) THEN Drop(buf, 3)
                ELSE IF HasPrefix(buf, bomUTF16BE) THEN Utf16Decode(Drop(buf, 2), "utf16be")
                ELSE IF HasPrefix(buf, bomUTF16LE) THEN Utf16Decode(Drop(buf, 2), "utf16le")
                ELSE buf
    IN IF text \in {DocFoo, DocEmpty, DocSchema} THEN Ok(text)
       ELSE Fail("yaml: found unexpected end of stream")

\* The keys of the `required` keyword of a compiled schema, in schema order.
Required(sch) == IF sch = DocSchema2 THEN <<"foo", "bar">> ELSE <<"foo">>

\* The description of the violation of a missing required key (desc.String()).
Description(key) ==
    IF key = "foo" THEN "(root): foo is required" ELSE "(root): bar is required"

\* result.Errors() for an object holding the keys `has`: one description per
\* missing required key, in the order of the schema.
RECURSIVE Violations(_, _)
Violations(req, has) ==
    IF Len(req) = 0 THEN <<>>
    ELSE (IF Head(req) \in has THEN <<>> ELSE <<Description(Head(req))>>)
             \o Violations(Tail(req), has)

\* schema.Validate(loader): the JSON decoder reads the first value of the buffer;
\* the result is an error, or the list of violations (empty when valid).
Validate(sch, buf) ==
    IF HasPrefix(buf, DocFoo) THEN [err |-> "", errors |-> Violations(Required(sch), {"foo"})]
    ELSE IF HasPrefix(buf, DocEmpty)
         THEN [err |-> "", errors |-> Violations(Required(sch), {})]
    ELSE [err |-> "invalid character", errors |-> <<>>]

\* sl.Compile(schemaLoader), sl.AddSchemas(loader)
Compile(buf) == IF HasPrefix(buf, DocSchema) THEN "" ELSE "invalid schema"

(***************************************************************************)
(* jsonLoader.  A path is <<name, extension>>; fs maps the existing paths  *)
(* to their bytes.                                                         *)
(***************************************************************************)
Ext(path) == path[2]

\* Mutant of jsonLoader: every file goes through jsonDecodeCharset.
jsonLoaderNoDispatch(fs, path, allowBOM) ==
    IF path \notin DOMAIN fs THEN Fail("no such file or directory")
    ELSE jsonDecodeCharset(fs[path], allowBOM)

jsonLoader(fs, path, allowBOM) ==
    IF path \notin DOMAIN fs THEN Fail("no such file or directory")
    ELSE IF Ext(path) \in {".yml", ".yaml"} THEN YAMLToJSON(fs[path])
    ELSE jsonDecodeCharset(fs[path], allowBOM)

(***************************************************************************)
(* The messages of a worker unit.  A message is the sequence of its lines, *)
(* written with one Fprintln; a line is <<path, status, detail>>.          *)
(***************************************************************************)
LoadErrorMsg(path, cause) == << <<path, "error: load doc", cause>> >>

ValidateErrorMsg(path, cause) == << <<path, "error: validate", cause>> >>

\* Mutant of FailMsg: the lines read "<path>: error: fail: <description>".
FailMsgErrorPrefix(path, descs) ==
    [k \in 1..Len(descs) |-> <<path, "error: fail", descs[k]>>]

\* lines[i] = fmt.Sprintf("%s: fail: %s", path, desc), joined with "\n".
FailMsg(path, descs) == [k \in 1..Len(descs) |-> <<path, "fail", descs[k]>>]

PassMsg(path) == << <<path, "pass", "">> >>

\* The path field of a line that is not about a document.
NoPath == <<"", "">>

(***************************************************************************)
(* State of one run of realMain.                                           *)
(***************************************************************************)
VARIABLES
    versionFlag,   \* -v
    schemaFlag,    \* -s: the schema path, <<>> when not given
    quietFlag,     \* -q
    bomFlag,       \* -b
    listFlags,     \* -l: the file-list paths
    refFlags,      \* -r: the patterns of the referenced schemas
    args,          \* flag.Args(): the document patterns
    files,         \* the file system: path -> bytes
    cmdline,       \* the argument list of the current call of realMain
    history,       \* the earlier calls of realMain in this process, with what
                   \* each returned and wrote
    mpc,           \* where realMain is
    schema,        \* the compiled schema, <<>> before sl.Compile
    docs,          \* the resolved document list
    started,       \* number of loop iterations of `for _, p := range docs` done
    wg,            \* the WaitGroup counter
    sem,           \* number of values in the `sem` channel
    failures,      \* the shared slice of failure messages
    errors,        \* the shared slice of error messages
    out,           \* the lines written to w, in order
    exit,          \* the exit status: what realMain returned or the status of
                   \* os.Exit in log.Fatal; -1 while the run goes on
    wpc,           \* unit -> where the goroutine is
    loaded,        \* unit -> what jsonLoader returned
    result,        \* unit -> what schema.Validate returned, NotCalled before
    kind,          \* unit -> "pass" | "fail" | "error", "" before classification
    msg,           \* unit -> the message of the unit
    snap           \* unit -> the slice value read by the unit's append

vars == <<versionFlag, schemaFlag, quietFlag, bomFlag, listFlags, refFlags, args,
          files, cmdline, history, mpc, schema, docs, started, wg, sem, failures, errors, out, exit,
          wpc, loaded, result, kind, msg, snap>>

flagVars == <<versionFlag, schemaFlag, quietFlag, bomFlag, listFlags, refFlags, args,
              files, cmdline, history>>

unitVars == <<wpc, loaded, result, kind, msg, snap>>

Units == 1..MaxDocs

SchemaPath == <<"testdata/utf-8/schema", ".json">>

BadSchemaPath == <<"testdata/utf-8/schema-bad", ".json">>

MissingList == <<"missing", ".txt">>

\* testdata/utf-8/data-*.json, the pattern of TestMain.
DataGlob == <<"testdata/utf-8/data-*", ".json">>

\* The documents of the test data used by the pool: valid, violating the
\* schema, and truncated JSON behind a UTF-8 BOM (a load error without -b,
\* a validate error with -b).
TestPaths ==
    << <<"testdata/utf-8/data-pass", ".json">>,
       <<"testdata/utf-8/data-fail", ".json">>,
       <<"testdata/utf-8_bom/data-error", ".json">> >>

Testdata ==
    [p \in {SchemaPath, BadSchemaPath} \cup {TestPaths[k] : k \in 1..Len(TestPaths)} |->
        CASE p = SchemaPath -> DocSchema
          [] p = BadSchemaPath -> <<123>>
          [] p = TestPaths[1] -> DocFoo
          [] p = TestPaths[2] -> DocEmpty
          [] OTHER -> bomUTF8 \o <<123, 34, 102>>]

\* Document lists: what the globs of the arguments resolve to.  filepath.Glob
\* returns the matches in lexical order; a path may match more than one argument.
DocLists ==
    LET idx == UNION {[1..n -> 1..Len(TestPaths)] : n \in 0..MaxDocs}
        sorted == {l \in idx : \A a, b \in DOMAIN l : a < b => l[a] <= l[b]}
    IN {[k \in DOMAIN l |-> TestPaths[l[k]]] : l \in sorted}

NoUnit == [u \in Units |-> ""]

\* The value of `result` of a unit that has not called schema.Validate.
NotCalled == [err |-> "not called", errors |-> <<>>]

\* The first call of realMain in a process: every flag has its default or the
\* value the argument list gives it.
FirstCall ==
    /\ cmdline = [v |-> versionFlag, s |-> schemaFlag, q |-> quietFlag, b |-> bomFlag,
                  l |-> listFlags, r |-> refFlags, a |-> args]
    /\ history = <<>>

InitRun ==
    /\ FirstCall
    /\ mpc = "start"
    /\ schema = <<>>
    /\ docs = <<>>
    /\ started = 0
    /\ wg = 0
    /\ sem = 0
    /\ failures = <<>>
    /\ errors = <<>>
    /\ out = <<>>
    /\ exit = -1
    /\ wpc = [u \in Units |-> "idle"]
    /\ loaded = [u \in Units |-> Ok(<<>>)]
    /\ result = [u \in Units |-> NotCalled]
    /\ kind = NoUnit
    /\ msg = [u \in Units |-> <<>>]
    /\ snap = [u \in Units |-> <<>>]

Init ==
    /\ versionFlag \in BOOLEAN
    /\ schemaFlag \in {<<>>, SchemaPath, BadSchemaPath}
    /\ quietFlag \in BOOLEAN
    /\ bomFlag \in BOOLEAN
    /\ listFlags \in {<<>>, <<MissingList>>}
    /\ refFlags = <<>>
    /\ args \in DocLists
    /\ files = Testdata
    /\ InitRun

(***************************************************************************)
(* realMain before the pool: the early returns.                            *)
(***************************************************************************)
Returns(code) == mpc' = "returned" /\ exit' = code

\* Mutant of CheckFlags: the missing -s is tested before -v.
CheckFlagsSchemaFirst ==
    /\ mpc = "start"
    /\ IF schemaFlag = <<>>
       THEN Returns(4) /\ out' = out
       ELSE IF versionFlag
            THEN Returns(0) /\ out' = Append(out, <<NoPath, "version", "v1.4.0-dev">>)
            ELSE mpc' = "resolve" /\ exit' = exit /\ out' = out
    /\ UNCHANGED <<flagVars, schema, docs, started, wg, sem, failures, errors, unitVars>>

\* flag.CommandLine.Parse(args); -v; missing -s.
CheckFlags ==
    /\ mpc = "start"
    /\ IF versionFlag
       THEN Returns(0) /\ out' = Append(out, <<NoPath, "version", "v1.4.0-dev">>)
       ELSE IF schemaFlag = <<>>
            THEN Returns(4) /\ out' = out
            ELSE mpc' = "resolve" /\ exit' = exit /\ out' = out
    /\ UNCHANGED <<flagVars, schema, docs, started, wg, sem, failures, errors, unitVars>>

\* log.Fatal in glob: the message goes to stderr and the process ends with
\* os.Exit(1); realMain does not return.
Fatal == mpc' = "fatal" /\ exit' = 1

\* filepath.Glob(pattern): the existing paths the pattern matches, in lexical
\* order.  DataGlob is testdata/utf-8/data-*.json; any other pattern has no
\* wildcard and matches the file of that name.
Matches(fs, pattern) ==
    IF pattern = DataGlob
    THEN SelectSeq(<<TestPaths[2], TestPaths[1]>>, LAMBDA q : q \in DOMAIN fs)
    ELSE IF pattern \in DOMAIN fs THEN <<pattern>> ELSE <<>>

\* glob(pattern): log.Fatalf when nothing matches.
glob(fs, pattern) ==
    LET m == Matches(fs, pattern) IN [fatal |-> Len(m) = 0, paths |-> m]

\* docs = append(docs, glob(arg)...) for each pattern in turn, from docs = acc.
RECURSIVE GlobAll(_, _, _)
GlobAll(fs, patterns, acc) ==
    IF Len(patterns) = 0 THEN [fatal |-> FALSE, paths |-> acc]
    ELSE LET g == glob(fs, Head(patterns))
         IN IF g.fatal THEN [fatal |-> TRUE, paths |-> acc]
            ELSE GlobAll(fs, Tail(patterns), acc \o g.paths)

\* for _, list := range listFlags: os.Open fails with a schemaError; each line
\* of an opened list is a pattern (already joined with the list's directory).
RECURSIVE ReadLists(_, _, _)
ReadLists(fs, lists, acc) ==
    IF Len(lists) = 0 THEN [status |-> "ok", paths |-> acc]
    ELSE IF Head(lists) \notin DOMAIN fs THEN [status |-> "schemaError", paths |-> acc]
    ELSE LET g == GlobAll(fs, fs[Head(lists)], acc)
         IN IF g.fatal THEN [status |-> "fatal", paths |-> acc]
            ELSE ReadLists(fs, Tail(lists), g.paths)

\* Resolve document paths to validate: the arguments, then the file lists.
ResolveDocs ==
    /\ mpc = "resolve"
    /\ LET a == GlobAll(files, args, <<>>)
           r == ReadLists(files, listFlags, a.paths)
       IN IF a.fatal \/ r.status = "fatal"
          THEN Fatal /\ docs' = <<>>
          ELSE IF r.status = "schemaError"
               THEN Returns(5) /\ docs' = <<>>
               ELSE IF Len(r.paths) = 0
                    THEN Returns(4) /\ docs' = <<>>
                    ELSE mpc' = "compile" /\ exit' = exit /\ docs' = r.paths
    /\ UNCHANGED <<flagVars, schema, started, wg, sem, failures, errors, out, unitVars>>

\* The body of `for _, p := range glob(ref)`: the primary schema is skipped;
\* a reference that does not load, or that sl.AddSchemas rejects, is a
\* schemaError.
RECURSIVE AddRefs(_, _, _, _)
AddRefs(fs, paths, schemaPath, allowBOM) ==
    IF Len(paths) = 0 THEN "ok"
    ELSE LET l == jsonLoader(fs, Head(paths), allowBOM)
         IN IF Head(paths) = schemaPath THEN AddRefs(fs, Tail(paths), schemaPath, allowBOM)
            ELSE IF l.err # "" \/ Compile(l.buf) # "" THEN "schemaError"
            ELSE AddRefs(fs, Tail(paths), schemaPath, allowBOM)

\* for _, ref := range refFlags
RECURSIVE LoadRefs(_, _, _, _)
LoadRefs(fs, refs, schemaPath, allowBOM) ==
    IF Len(refs) = 0 THEN "ok"
    ELSE LET g == glob(fs, Head(refs))
         IN IF g.fatal THEN "fatal"
            ELSE IF AddRefs(fs, g.paths, schemaPath, allowBOM) # "ok" THEN "schemaError"
            ELSE LoadRefs(fs, Tail(refs), schemaPath, allowBOM)

\* Compile target schema: the referenced schemas, then the primary schema;
\* then wg, sem, failures and errors are created.
CompileSchema ==
    /\ mpc = "compile"
    /\ LET refs == LoadRefs(files, refFlags, schemaFlag, bomFlag)
           l == jsonLoader(files, schemaFlag, bomFlag)
       IN IF refs = "fatal"
          THEN Fatal /\ schema' = schema
          ELSE IF refs = "schemaError" \/ l.err # "" \/ Compile(l.buf) # ""
               THEN Returns(5) /\ schema' = schema
               ELSE mpc' = "dispatch" /\ exit' = exit /\ schema' = l.buf
    /\ UNCHANGED <<flagVars, docs, started, wg, sem, failures, errors, out, unitVars>>

(***************************************************************************)
(* The pool: one goroutine per document.                                   *)
(***************************************************************************)
\* wg.Add(1); go func(path string) {...}(p)
Spawn ==
    /\ mpc = "dispatch"
    /\ started < Len(docs)
    /\ started' = started + 1
    /\ wg' = wg + 1
    /\ wpc' = [wpc EXCEPT ![started + 1] = "acquire"]
    /\ UNCHANGED <<flagVars, schema, mpc, docs, sem, failures, errors, out, exit,
                   loaded, result, kind, msg, snap>>

\* Mutant of Acquire: the send does not block on a full channel.
AcquireNoBlock(u) ==
    /\ wpc[u] = "acquire"
    /\ sem' = sem + 1
    /\ wpc' = [wpc EXCEPT ![u] = "load"]
    /\ UNCHANGED <<flagVars, schema, mpc, docs, started, wg, failures, errors, out, exit,
                   loaded, result, kind, msg, snap>>

\* sem <- 0: blocks while the channel is full.
Acquire(u) ==
    /\ wpc[u] = "acquire"
    /\ sem < SemCap
    /\ sem' = sem + 1
    /\ wpc' = [wpc EXCEPT ![u] = "load"]
    /\ UNCHANGED <<flagVars, schema, mpc, docs, started, wg, failures, errors, out, exit,
                   loaded, result, kind, msg, snap>>

\* Mutant of Classified: only the first violation is reported.
ClassifiedFirstOnly(path, l, sch) ==
    IF l.err # ""
    THEN [kind |-> "error", msg |-> LoadErrorMsg(path, l.err), result |-> NotCalled]
    ELSE LET r == Validate(sch, l.buf)
         IN IF r.err # ""
            THEN [kind |-> "error", msg |-> ValidateErrorMsg(path, r.err), result |-> r]
            ELSE IF Len(r.errors) > 0
                 THEN [kind |-> "fail", msg |-> FailMsg(path, <<r.errors[1]>>), result |-> r]
                 ELSE [kind |-> "pass", msg |-> PassMsg(path), result |-> r]

\* The message and the outcome of a document, from what jsonLoader returned:
\* the load-error branch, then the switch on schema.Validate(loader).
Classified(path, l, sch) ==
    IF l.err # ""
    THEN [kind |-> "error", msg |-> LoadErrorMsg(path, l.err), result |-> NotCalled]
    ELSE LET r == Validate(sch, l.buf)
         IN IF r.err # ""
            THEN [kind |-> "error", msg |-> ValidateErrorMsg(path, r.err), result |-> r]
            ELSE IF Len(r.errors) > 0
                 THEN [kind |-> "fail", msg |-> FailMsg(path, r.errors), result |-> r]
                 ELSE [kind |-> "pass", msg |-> PassMsg(path), result |-> r]

\* Mutant of Load: a load error ends the process, as log.Fatal does in glob.
LoadFatal(u) ==
    /\ wpc[u] = "load"
    /\ LET l == jsonLoader(files, docs[u], bomFlag)
           c == Classified(docs[u], l, schema)
       IN /\ loaded' = [loaded EXCEPT ![u] = l]
          /\ result' = [result EXCEPT ![u] = c.result]
          /\ kind' = [kind EXCEPT ![u] = c.kind]
          /\ msg' = [msg EXCEPT ![u] = c.msg]
          /\ IF l.err # ""
             THEN mpc' = "returned" /\ exit' = 1
             ELSE mpc' = mpc /\ exit' = exit
    /\ wpc' = [wpc EXCEPT ![u] = "report"]
    /\ UNCHANGED <<flagVars, schema, docs, started, wg, sem, failures, errors, out, snap>>

\* loader, err := jsonLoader(path); result, err := schema.Validate(loader): the
\* unit reads its document and builds its message.  Nothing shared is written.
Load(u) ==
    /\ wpc[u] = "load"
    /\ LET l == jsonLoader(files, docs[u], bomFlag)
           c == Classified(docs[u], l, schema)
       IN /\ loaded' = [loaded EXCEPT ![u] = l]
          /\ result' = [result EXCEPT ![u] = c.result]
          /\ kind' = [kind EXCEPT ![u] = c.kind]
          /\ msg' = [msg EXCEPT ![u] = c.msg]
    /\ wpc' = [wpc EXCEPT ![u] = "report"]
    /\ UNCHANGED <<flagVars, schema, mpc, docs, started, wg, sem, failures, errors, out,
                   exit, snap>>

\* Mutant of Report: the pass line is written with -q too.
ReportIgnoreQuiet(u) ==
    /\ wpc[u] = "report"
    /\ out' = out \o msg[u]
    /\ wpc' = [wpc EXCEPT ![u] = IF kind[u] = "pass" THEN "release" ELSE "append"]
    /\ UNCHANGED <<flagVars, schema, mpc, docs, started, wg, sem, failures, errors, exit,
                   loaded, result, kind, msg, snap>>

\* fmt.Fprintln(w, msg); a pass line is not written with -q.
Report(u) ==
    /\ wpc[u] = "report"
    /\ out' = IF kind[u] = "pass" /\ quietFlag THEN out ELSE out \o msg[u]
    /\ wpc' = [wpc EXCEPT ![u] = IF kind[u] = "pass" THEN "release" ELSE "append"]
    /\ UNCHANGED <<flagVars, schema, mpc, docs, started, wg, sem, failures, errors, exit,
                   loaded, result, kind, msg, snap>>

\* The slice a unit appends to.
Bucket(u) == IF kind[u] = "fail" THEN failures ELSE errors

\* errors = append(errors, msg), first half: the slice is read.  No lock is held.
AppendLoad(u) ==
    /\ wpc[u] = "append"
    /\ snap' = [snap EXCEPT ![u] = Bucket(u)]
    /\ wpc' = [wpc EXCEPT ![u] = "store"]
    /\ UNCHANGED <<flagVars, schema, mpc, docs, started, wg, sem, failures, errors, out,
                   exit, loaded, result, kind, msg>>

\* Mutant of AppendStore: when the slice changed since it was read, the slice
\* that was read is stored back without the message.
AppendStoreStale(u) ==
    /\ wpc[u] = "store"
    /\ IF kind[u] = "fail"
       THEN /\ failures' = IF failures = snap[u] THEN Append(snap[u], msg[u]) ELSE snap[u]
            /\ errors' = errors
       ELSE /\ errors' = IF errors = snap[u] THEN Append(snap[u], msg[u]) ELSE snap[u]
            /\ failures' = failures
    /\ wpc' = [wpc EXCEPT ![u] = "release"]
    /\ UNCHANGED <<flagVars, schema, mpc, docs, started, wg, sem, out, exit,
                   loaded, result, kind, msg, snap>>

\* errors = append(errors, msg), second half: the grown slice is stored.
AppendStore(u) ==
    /\ wpc[u] = "store"
    /\ IF kind[u] = "fail"
       THEN failures' = Append(snap[u], msg[u]) /\ errors' = errors
       ELSE errors' = Append(snap[u], msg[u]) /\ failures' = failures
    /\ wpc' = [wpc EXCEPT ![u] = "release"]
    /\ UNCHANGED <<flagVars, schema, mpc, docs, started, wg, sem, out, exit,
                   loaded, result, kind, msg, snap>>

\* Mutant of Release: the slot is not given back.
ReleaseLeak(u) ==
    /\ wpc[u] = "release"
    /\ wpc' = [wpc EXCEPT ![u] = "wgdone"]
    /\ UNCHANGED <<flagVars, schema, mpc, docs, started, wg, sem, failures, errors, out, exit,
                   loaded, result, kind, msg, snap>>

\* Mutant of Release: the receive is deferred after the load-error return, so
\* a unit that returns on a load error keeps its slot.
ReleaseAfterLoad(u) ==
    /\ wpc[u] = "release"
    /\ sem' = IF loaded[u].err # "" THEN sem ELSE sem - 1
    /\ wpc' = [wpc EXCEPT ![u] = "wgdone"]
    /\ UNCHANGED <<flagVars, schema, mpc, docs, started, wg, failures, errors, out, exit,
                   loaded, result, kind, msg, snap>>

\* defer func() { <-sem }()
Release(u) ==
    /\ wpc[u] = "release"
    /\ sem' = sem - 1
    /\ wpc' = [wpc EXCEPT ![u] = "wgdone"]
    /\ UNCHANGED <<flagVars, schema, mpc, docs, started, wg, failures, errors, out, exit,
                   loaded, result, kind, msg, snap>>

\* defer wg.Done()
Done(u) ==
    /\ wpc[u] = "wgdone"
    /\ wg' = wg - 1
    /\ wpc' = [wpc EXCEPT ![u] = "done"]
    /\ UNCHANGED <<flagVars, schema, mpc, docs, started, sem, failures, errors, out, exit,
                   loaded, result, kind, msg, snap>>

\* Mutant of Wait: realMain goes on after the loop without waiting.
WaitNoJoin ==
    /\ mpc = "dispatch"
    /\ started = Len(docs)
    /\ mpc' = "summary"
    /\ UNCHANGED <<flagVars, schema, docs, started, wg, sem, failures, errors, out, exit,
                   unitVars>>

\* wg.Wait(): after the loop, blocks until the counter is zero.
Wait ==
    /\ mpc = "dispatch"
    /\ started = Len(docs)
    /\ wg = 0
    /\ mpc' = "summary"
    /\ UNCHANGED <<flagVars, schema, docs, started, wg, sem, failures, errors, out, exit,
                   unitVars>>

RECURSIVE Join(_)
\* strings.Join(msgs, "\n"): the lines of all the messages.
Join(msgs) == IF Len(msgs) = 0 THEN <<>> ELSE Head(msgs) \o Join(Tail(msgs))

CountLine(n, m, what) == <<NoPath, what, <<n, m>>>>

\* The block of the summary for one slice: the count line, then the messages.
Block(msgs, n, what) ==
    IF Len(msgs) > 0 THEN <<CountLine(Len(msgs), n, what)>> \o Join(msgs) ELSE <<>>

\* Mutant of Summarize: the malformed documents are summarized only when no
\* document failed validation.
SummarizeElseIf ==
    /\ mpc = "summary"
    /\ out' = IF quietFlag THEN out
              ELSE IF Len(failures) > 0
                   THEN out \o Block(failures, Len(docs), "failed validation")
                   ELSE out \o Block(errors, Len(docs), "malformed documents")
    /\ mpc' = "exit"
    /\ UNCHANGED <<flagVars, schema, docs, started, wg, sem, failures, errors, exit, unitVars>>

\* Mutant of Summarize: the summary is written with -q too.
SummarizeAlways ==
    /\ mpc = "summary"
    /\ out' = out \o Block(failures, Len(docs), "failed validation")
                  \o Block(errors, Len(docs), "malformed documents")
    /\ mpc' = "exit"
    /\ UNCHANGED <<flagVars, schema, docs, started, wg, sem, failures, errors, exit, unitVars>>

\* Mutant of Summarize: the malformed documents are summarized before the
\* documents that failed validation.
SummarizeErrorsFirst ==
    /\ mpc = "summary"
    /\ out' = IF quietFlag THEN out
              ELSE out \o Block(errors, Len(docs), "malformed documents")
                       \o Block(failures, Len(docs), "failed validation")
    /\ mpc' = "exit"
    /\ UNCHANGED <<flagVars, schema, docs, started, wg, sem, failures, errors, exit, unitVars>>

\* Summarize results (e.g. errors)
Summarize ==
    /\ mpc = "summary"
    /\ out' = IF quietFlag THEN out
              ELSE out \o Block(failures, Len(docs), "failed validation")
                       \o Block(errors, Len(docs), "malformed documents")
    /\ mpc' = "exit"
    /\ UNCHANGED <<flagVars, schema, docs, started, wg, sem, failures, errors, exit, unitVars>>

\* Mutant of ExitCode: the second test overwrites the first (exit = 2).
ExitCodeOverwrite(fs, es) ==
    IF Len(es) > 0 THEN 2 ELSE IF Len(fs) > 0 THEN 1 ELSE 0

\* exit := 0; exit |= 1 on failures; exit |= 2 on errors.
ExitCode(fs, es) ==
    (IF Len(fs) > 0 THEN 1 ELSE 0) + (IF Len(es) > 0 THEN 2 ELSE 0)

Return ==
    /\ mpc = "exit"
    /\ Returns(ExitCode(failures, errors))
    /\ UNCHANGED <<flagVars, schema, docs, started, wg, sem, failures, errors, out, unitVars>>

Next ==
    \/ CheckFlags
    \/ ResolveDocs
    \/ CompileSchema
    \/ Spawn
    \/ \E u \in Units : Acquire(u)
    \/ \E u \in Units : Load(u)
    \/ \E u \in Units : Report(u)
    \/ \E u \in Units : AppendLoad(u)
    \/ \E u \in Units : AppendStore(u)
    \/ \E u \in Units : Release(u)
    \/ \E u \in Units : Done(u)
    \/ Wait
    \/ Summarize
    \/ Return

Spec == Init /\ [][Next]_vars

(***************************************************************************)
(* Runs of realMain on one document whose bytes are drawn from bounded     *)
(* sets: raw buffers, and the encodings gen_testdata.go writes of a text.  *)
(***************************************************************************)
\* Bytes of the raw buffers: NUL, { and }, a lead byte of a surrogate (0xD8),
\* and the two bytes of the UTF-16 byte-order marks.
ByteVals == {0, 123, 125, 216, 254, 255}

RawBodies == UNION {[1..n -> ByteVals] : n \in 0..MaxLen}

\* A raw buffer is a body behind nothing or behind one of the three BOMs.
Prefixes == {<<>>, bomUTF8, bomUTF16BE, bomUTF16LE}

\* Code points of the texts: NUL, { and }, U+00E9, U+10000.
RuneVals == {0, 123, 125, 233, 65536}

\* The source files: the bounded UTF-8 texts, two documents of the test data,
\* and a BOM-less UTF-16 document (testdata/utf-16be/data-fail.json).
Texts ==
    {Utf8Bytes(t) : t \in UNION {[1..n -> RuneVals] : n \in 0..MaxText}}
        \cup {DocFoo, <<123, 34, 102>>, Utf16Encode(DocEmpty, "utf16be")}

\* gen_testdata.go, write(dir, orig, bom, buf): the file holds bom then buf.
write(bom, buf) == bom \o buf

\* gen_testdata.go, main: the five files generated from one UTF-8 source.
GenTestdata(src) ==
    [d \in {"utf-8_bom", "utf-16be", "utf-16le", "utf-16be_bom", "utf-16le_bom"} |->
        CASE d = "utf-8_bom" -> write(bomUTF8, src)
          [] d = "utf-16be" -> write(<<>>, Utf16Encode(src, "utf16be"))
          [] d = "utf-16be_bom" -> write(bomUTF16BE, Utf16Encode(src, "utf16be"))
          [] d = "utf-16le" -> write(<<>>, Utf16Encode(src, "utf16le"))
          [] OTHER -> write(bomUTF16LE, Utf16Encode(src, "utf16le"))]

RawPath(ext) == <<"raw/data", ext>>

SrcPath(ext) == <<"source", ext>>

GenPath(d, ext) == <<d, ext>>

SchemaFiles == [p \in {SchemaPath} |-> DocSchema]

\* More extensions: the second YAML extension, and two that filepath.Ext does
\* not report as YAML (upper case, and no extension).
OtherExts == {".yaml", ".YML", ""}

\* data-pass, data-fail and data-error of the test data.
DataTexts == {DocFoo, DocEmpty, <<123, 34, 102>>}

InitCharset ==
    /\ versionFlag = FALSE
    /\ schemaFlag = SchemaPath
    /\ quietFlag = FALSE
    /\ bomFlag \in BOOLEAN
    /\ listFlags = <<>>
    /\ refFlags = <<>>
    /\ \/ \E ext \in {".json", ".yml"} :
             \/ \E pre \in Prefixes, body \in RawBodies :
                   /\ files = SchemaFiles @@ (RawPath(ext) :> pre \o body)
                   /\ args = <<RawPath(ext)>>
             \/ \E src \in Texts, d \in DOMAIN GenTestdata(<<>>) :
                   /\ files = SchemaFiles @@ (SrcPath(ext) :> src)
                                          @@ (GenPath(d, ext) :> GenTestdata(src)[d])
                   /\ args = <<SrcPath(ext), GenPath(d, ext)>>
       \/ \E ext \in OtherExts, src \in DataTexts, d \in DOMAIN GenTestdata(<<>>) :
             /\ files = SchemaFiles @@ (SrcPath(ext) :> src)
                                    @@ (GenPath(d, ext) :> GenTestdata(src)[d])
             /\ args = <<SrcPath(ext), GenPath(d, ext)>>
    /\ InitRun

(***************************************************************************)
(* Runs of realMain over its command lines: every flag, patterns that      *)
(* match nothing, file lists, referenced schemas, and schemas that do not  *)
(* load or do not compile.                                                 *)
(***************************************************************************)
\* {"required":["foo","bar"]}
Schema2Path == <<"testdata/utf-8/schema2", ".json">>

\* testdata/utf-16be_bom/schema.json, the schema of the first case of TestMain.
BomSchemaPath == <<"testdata/utf-16be_bom/schema", ".json">>

RefPath == <<"testdata/utf-8/ref", ".json">>

BadRefPath == <<"testdata/utf-8/ref-bad", ".json">>

\* A pattern without a match.
NoMatch == <<"nomatch", ".json">>

\* File lists: one naming data-fail.json, an empty one, one whose line has no match.
ListPath == <<"testdata/list", ".txt">>

EmptyList == <<"testdata/empty", ".txt">>

NoMatchList == <<"testdata/nomatch", ".txt">>

SetupFiles ==
    Testdata
        @@ (Schema2Path :> DocSchema2)
        @@ (BomSchemaPath :> bomUTF16BE \o Utf16Encode(DocSchema, "utf16be"))
        @@ (RefPath :> DocSchema)
        @@ (BadRefPath :> <<123>>)
        @@ (ListPath :> <<TestPaths[2]>>)
        @@ (EmptyList :> <<>>)
        @@ (NoMatchList :> <<NoMatch>>)

InitSetup ==
    /\ versionFlag \in BOOLEAN
    /\ schemaFlag \in {<<>>, SchemaPath, Schema2Path, BadSchemaPath, BomSchemaPath, NoMatch}
    /\ quietFlag \in BOOLEAN
    /\ bomFlag \in BOOLEAN
    /\ listFlags \in {<<>>, <<MissingList>>, <<ListPath>>, <<EmptyList>>, <<NoMatchList>>,
                       <<ListPath, MissingList>>}
    /\ refFlags \in {<<>>, <<RefPath>>, <<BadRefPath>>, <<NoMatch>>, <<SchemaPath>>,
                      <<BadSchemaPath>>}
    /\ args \in {<<>>, <<NoMatch>>, <<DataGlob>>, <<TestPaths[1]>>, <<TestPaths[2]>>,
                  <<TestPaths[3], TestPaths[2]>>, <<TestPaths[1], NoMatch>>}
    /\ files = SetupFiles
    /\ InitRun

SpecSetup == InitSetup /\ [][Next]_vars

(***************************************************************************)
(* Several calls of realMain in one process, as the loop of TestMain makes *)
(* them.  The flags are package variables: flag.CommandLine.Parse sets the *)
(* flags the argument list names and leaves the others as they are.        *)
(***************************************************************************)
\* Most calls of realMain in one process.
MaxCalls == 3

\* An argument list: the flags it names (a boolean flag is named when TRUE, -s
\* when not <<>>) and the remaining arguments.
Cmd(v, s, q, b, l, a) == [v |-> v, s |-> s, q |-> q, b |-> b, l |-> l, r |-> <<>>, a |-> a]

\* The argument lists of the calls.
Cmdlines ==
    {Cmd(FALSE, SchemaPath, FALSE, FALSE, <<>>, <<TestPaths[1]>>),
     Cmd(FALSE, SchemaPath, TRUE, FALSE, <<>>, <<TestPaths[1]>>),
     Cmd(FALSE, SchemaPath, FALSE, FALSE, <<>>, <<TestPaths[3]>>),
     Cmd(FALSE, SchemaPath, FALSE, TRUE, <<>>, <<TestPaths[3]>>),
     Cmd(FALSE, SchemaPath, FALSE, FALSE, <<ListPath>>, <<>>),
     Cmd(FALSE, <<>>, FALSE, FALSE, <<>>, <<TestPaths[2]>>),
     Cmd(TRUE, <<>>, FALSE, FALSE, <<>>, <<>>)}

InitRepeat ==
    /\ \E c \in Cmdlines :
          /\ versionFlag = c.v
          /\ schemaFlag = c.s
          /\ quietFlag = c.q
          /\ bomFlag = c.b
          /\ listFlags = c.l
          /\ refFlags = c.r
          /\ args = c.a
    /\ files = SetupFiles
    /\ InitRun

\* The next t.Run of the loop: what the call before returned and wrote is kept
\* for the comparison, then realMain(strings.Split(in, " "), &w) starts with a
\* new writer and flag.CommandLine.Parse(args) sets the flags that c names.
RunTest ==
    /\ mpc = "returned"
    /\ Len(history) + 1 < MaxCalls
    /\ \E c \in Cmdlines :
          /\ Len(listFlags) + Len(c.l) + Len(c.a) <= MaxDocs
          /\ cmdline' = c
          /\ versionFlag' = (versionFlag \/ c.v)
          /\ schemaFlag' = IF c.s # <<>> THEN c.s ELSE schemaFlag
          /\ quietFlag' = (quietFlag \/ c.q)
          /\ bomFlag' = (bomFlag \/ c.b)
          /\ listFlags' = listFlags \o c.l
          /\ refFlags' = refFlags \o c.r
          /\ args' = c.a
    /\ history' = Append(history, [cmd |-> cmdline, exit |-> exit, out |-> out])
    /\ mpc' = "start"
    /\ schema' = <<>>
    /\ docs' = <<>>
    /\ started' = 0
    /\ wg' = 0
    /\ sem' = 0
    /\ failures' = <<>>
    /\ errors' = <<>>
    /\ out' = <<>>
    /\ exit' = -1
    /\ wpc' = [u \in Units |-> "idle"]
    /\ loaded' = [u \in Units |-> Ok(<<>>)]
    /\ result' = [u \in Units |-> NotCalled]
    /\ kind' = NoUnit
    /\ msg' = [u \in Units |-> <<>>]
    /\ snap' = [u \in Units |-> <<>>]
    /\ UNCHANGED files

NextRepeat == Next \/ RunTest

SpecRepeat == InitRepeat /\ [][NextRepeat]_vars

\* Whether the run ends does not depend on what is written or on how a BOM is
\* treated: the runs checked for termination are those with -q and without -b.
InitFair == Init /\ quietFlag /\ ~bomFlag

\* The scheduler runs some runnable goroutine: the run does not stop while a
\* step is possible.
FairSpec == InitFair /\ [][Next]_vars /\ WF_vars(Next)

SpecCharset == InitCharset /\ [][Next]_vars

(***************************************************************************)
(* Properties.                                                             *)
(***************************************************************************)
\* wg.Wait has returned: the pool ran and realMain is past the join.
AfterWait == mpc \in {"summary", "exit"} \/ (mpc = "returned" /\ started > 0)

Dispatched == 1..Len(docs)

UnitsOfKind(k) == {u \in Dispatched : kind[u] = k}

Range(seq) == {seq[k] : k \in DOMAIN seq}

\* Units holding a slot of sem: acquired and not yet released.
Holders == {u \in Units : wpc[u] \in {"load", "report", "append", "store", "release"}}

\* C1: after wg.Wait returns, passes + len(failures) + len(errors) = len(docs),
\* and the message of every failed or malformed document is in its slice.
C1_OneOutcomePerPath ==
    AfterWait =>
        /\ Cardinality(UnitsOfKind("pass")) + Len(failures) + Len(errors) = Len(docs)
        /\ \A u \in UnitsOfKind("fail") : msg[u] \in Range(failures)
        /\ \A u \in UnitsOfKind("error") : msg[u] \in Range(errors)

\* C2: no two units are at the same time between the read and the write of an
\* append to the same shared slice.
C2_AppendsExclusive ==
    \A u, v \in Units :
        (u # v /\ wpc[u] = "store" /\ wpc[v] = "store") => kind[u] # kind[v]

\* C3: the value returned after the validation phase is 1 if some document
\* failed, OR 2 if some document is malformed.
C3_ExitBitmask ==
    (mpc = "returned" /\ started > 0) =>
        exit = (IF UnitsOfKind("fail") # {} THEN 1 ELSE 0)
                 + (IF UnitsOfKind("error") # {} THEN 2 ELSE 0)

C3_Witness ==
    /\ mpc = "returned"
    /\ exit = 3
    /\ UnitsOfKind("fail") # {}
    /\ UnitsOfKind("error") # {}

\* C4: at most SemCap units hold a slot of sem.
C4_SemBound == Cardinality(Holders) <= SemCap

C4_Witness ==
    /\ Cardinality(Holders) = SemCap
    /\ \E u \in Units : wpc[u] = "acquire"

\* C5: the summary and the exit code are computed only when every dispatched
\* unit has finished.
C5_JoinBarrier ==
    AfterWait => (started = Len(docs) /\ \A u \in Dispatched : wpc[u] = "done")

C5_Witness == mpc = "summary" /\ Len(docs) >= 2 /\ Len(errors) >= 1

\* C6: under fair scheduling realMain returns an exit code, every dispatched
\* unit has finished and every slot of sem is free again.
C6_Terminates ==
    <>(/\ mpc = "returned"
       /\ exit >= 0
       /\ sem = 0
       /\ started > 0 => (started = Len(docs) /\ \A u \in Dispatched : wpc[u] = "done"))

C6_Witness ==
    /\ mpc = "returned"
    /\ Len(docs) > SemCap
    /\ sem = 0
    /\ \A u \in Dispatched : wpc[u] = "done"

\* The outcome each test document has by its own content.
OwnKind(path) ==
    CASE path = TestPaths[1] -> "pass"
      [] path = TestPaths[2] -> "fail"
      [] OTHER -> "error"

\* C7: when realMain returns after the pool, every document has been classified
\* by its own content whatever its siblings are, a malformed document has one
\* error line for its path in the output, and the exit code is one of 0..3.
C7_ErrorsConfined ==
    (mpc = "returned" /\ started > 0) =>
        /\ exit \in 0..3
        /\ \A u \in Dispatched :
              /\ wpc[u] = "done"
              /\ kind[u] = OwnKind(docs[u])
              /\ kind[u] = "error" =>
                    /\ Len(msg[u]) = 1
                    /\ msg[u][1][1] = docs[u]
                    /\ msg[u][1][2] \in {"error: load doc", "error: validate"}
                    /\ msg[u][1] \in Range(out)

C7_Witness ==
    /\ mpc = "returned"
    /\ UnitsOfKind("error") # {}
    /\ UnitsOfKind("pass") # {}
    /\ UnitsOfKind("fail") # {}

(***************************************************************************)
(* Properties of the output, on the runs of Spec.                          *)
(***************************************************************************)
\* realMain returned after the pool ran.
PoolReturned == mpc = "returned" /\ started > 0

\* The lines of the messages of units 1..n whose outcome is in ks, in the order
\* of the documents.
RECURSIVE MsgsOf(_, _)
MsgsOf(n, ks) ==
    IF n = 0 THEN <<>>
    ELSE MsgsOf(n - 1, ks) \o (IF kind[n] \in ks THEN msg[n] ELSE <<>>)

\* The two sequences hold the same lines the same number of times.
SameLines(a, b) ==
    \A l \in Range(a) \cup Range(b) :
        Cardinality({k \in DOMAIN a : a[k] = l}) = Cardinality({k \in DOMAIN b : b[k] = l})

\* What a run that handles its documents one after the other writes: the
\* report of each document, then the summary of all failed and all malformed
\* documents.
SequentialOut ==
    LET n == Len(docs)
        block(k, what) ==
            IF UnitsOfKind(k) # {}
            THEN <<CountLine(Cardinality(UnitsOfKind(k)), n, what)>> \o MsgsOf(n, {k})
            ELSE <<>>
    IN IF quietFlag THEN MsgsOf(n, {"fail", "error"})
       ELSE MsgsOf(n, {"pass", "fail", "error"})
                \o block("fail", "failed validation")
                \o block("error", "malformed documents")

\* The unit has written its report line(s).
Reported(u) == wpc[u] \in {"append", "store", "release", "wgdone", "done"}

\* C13: whatever the interleaving, when realMain returns the output holds the
\* lines of the sequential run, each as many times: no line is lost, none is
\* torn, and the sorted output is one fixed list for the input.
C13_OutputFixed == PoolReturned => SameLines(out, SequentialOut)

\* The run validated two documents, one failing validation and one malformed.
FailAndError ==
    /\ Len(docs) = 2
    /\ {kind[1], kind[2]} = {"fail", "error"}

\* C14 as stated: a run over one failing and one malformed document returns 3
\* and its output holds both count lines.
C14_BothSummaries ==
    (PoolReturned /\ FailAndError) =>
        /\ exit = 3
        /\ CountLine(1, 2, "failed validation") \in Range(out)
        /\ CountLine(1, 2, "malformed documents") \in Range(out)

\* C14 amended: a run over one failing and one malformed document returns 3 in
\* every interleaving; without -q its output holds both count lines, "1 of 2
\* failed validation" before "1 of 2 malformed documents"; with -q it holds no
\* count line.
C14_BothSummariesUnlessQuiet ==
    (PoolReturned /\ FailAndError) =>
        /\ exit = 3
        /\ IF quietFlag
           THEN \A k \in DOMAIN out : out[k][2] \notin {"failed validation", "malformed documents"}
           ELSE \E i, j \in DOMAIN out :
                   /\ i < j
                   /\ out[i] = CountLine(1, 2, "failed validation")
                   /\ out[j] = CountLine(1, 2, "malformed documents")

C14_Witness ==
    /\ PoolReturned
    /\ FailAndError
    /\ ~quietFlag
    /\ kind[2] = "error"
    /\ out[1][2] \in {"error: load doc", "error: validate"}
    /\ CountLine(1, 2, "malformed documents") \in Range(out)

\* C15: with -q no pass line is ever in the output, the report lines of a
\* failing or malformed document are in the output once the unit has reported,
\* and a run whose documents all pass returns with nothing written.
C15_QuietNoPass ==
    quietFlag =>
        /\ \A k \in DOMAIN out : out[k][2] # "pass"
        /\ \A u \in Dispatched :
              (Reported(u) /\ kind[u] \in {"fail", "error"}) =>
                  \A i \in DOMAIN msg[u] : msg[u][i] \in Range(out)
        /\ (PoolReturned /\ UnitsOfKind("pass") = Dispatched) => out = <<>>

C15_Witness ==
    /\ quietFlag
    /\ PoolReturned
    /\ UnitsOfKind("pass") # {}
    /\ UnitsOfKind("fail") # {}
    /\ Len(out) = Cardinality(UnitsOfKind("fail"))

\* C16: when realMain returns after the pool, with -q the output is exactly the
\* report lines of the failing and malformed documents, each document's lines
\* once, and no count line; without -q and with no failing and no malformed
\* document it is exactly one pass line per document.
C16_OutputExact ==
    PoolReturned =>
        /\ quietFlag => SameLines(out, MsgsOf(Len(docs), {"fail", "error"}))
        /\ (~quietFlag /\ UnitsOfKind("pass") = Dispatched) =>
              /\ SameLines(out, MsgsOf(Len(docs), {"pass"}))
              /\ Len(out) = Len(docs)
              /\ \A k \in DOMAIN out : out[k][2] = "pass"

C16_Witness ==
    /\ quietFlag
    /\ PoolReturned
    /\ Len(docs) = MaxDocs
    /\ UnitsOfKind("fail") # {}
    /\ UnitsOfKind("error") # {}
    /\ Len(out) = 2

\* C17: in the summary, the N of "N of M failed validation" is the number of
\* documents that failed validation, the N of "N of M malformed documents" is
\* the number of malformed documents, and M is the number of documents.
C17_SummaryCounts ==
    (PoolReturned /\ ~quietFlag) =>
        \A k \in DOMAIN out :
            /\ out[k][2] = "failed validation" =>
                  out[k][3] = <<Cardinality(UnitsOfKind("fail")), Len(docs)>>
            /\ out[k][2] = "malformed documents" =>
                  out[k][3] = <<Cardinality(UnitsOfKind("error")), Len(docs)>>

\* b is a, or a with one element added at its end.
GrowsByOne(a, b) ==
    \/ b = a
    \/ Len(b) = Len(a) + 1 /\ SubSeq(b, 1, Len(a)) = a

\* C25: every step leaves each of failures and errors as it is or adds one
\* entry at its end; an entry once in a slice stays, at its position, unchanged.
C25_AppendOnly ==
    [][GrowsByOne(failures, failures') /\ GrowsByOne(errors, errors')]_vars

\* How many times the line l is in seq.
Count(seq, l) == Cardinality({k \in DOMAIN seq : seq[k] = l})

IsCountLine(l) == l[2] \in {"failed validation", "malformed documents"}

\* The index of the first count line of the output, Len(out) + 1 when none.
SummaryStart ==
    LET at == {k \in DOMAIN out : IsCountLine(out[k])}
    IN IF at = {} THEN Len(out) + 1 ELSE CHOOSE k \in at : \A j \in at : k <= j

\* C26: in a run without -q, the lines of every failing or malformed document
\* are in the output once before the first count line (written by the unit)
\* and once more after it (in a summary block), and every message line of the
\* summary is also before the first count line.
C26_StreamedAndSummarized ==
    (PoolReturned /\ ~quietFlag) =>
        LET streamed == SubSeq(out, 1, SummaryStart - 1)
            summary == SubSeq(out, SummaryStart, Len(out))
            recorded == MsgsOf(Len(docs), {"fail", "error"})
        IN /\ \A k \in DOMAIN recorded :
                 /\ Count(streamed, recorded[k]) = Count(recorded, recorded[k])
                 /\ Count(summary, recorded[k]) = Count(recorded, recorded[k])
           /\ \A k \in DOMAIN summary :
                 ~IsCountLine(summary[k]) => summary[k] \in Range(streamed)

\* C31: when a run without -q returns, the output is the report lines of all
\* the documents, then, if failures is not empty, the line "N of M failed
\* validation" and the messages of failures, then, if errors is not empty, the
\* line "N of M malformed documents" and the messages of errors; a count line
\* is in the output only for a slice that is not empty, and once.  With a
\* failing and a malformed document both blocks are there, in this order.
C31_SummaryOrder ==
    (PoolReturned /\ ~quietFlag) =>
        LET n == Len(docs)
            streamed == SubSeq(out, 1, SummaryStart - 1)
            summary == SubSeq(out, SummaryStart, Len(out))
            fblock == IF Len(failures) > 0
                      THEN <<CountLine(Len(failures), n, "failed validation")>> \o Join(failures)
                      ELSE <<>>
            eblock == IF Len(errors) > 0
                      THEN <<CountLine(Len(errors), n, "malformed documents")>> \o Join(errors)
                      ELSE <<>>
        IN /\ SameLines(streamed, MsgsOf(n, {"pass", "fail", "error"}))
           /\ summary = fblock \o eblock
           /\ (UnitsOfKind("fail") # {} /\ UnitsOfKind("error") # {}) =>
                  /\ summary[1][2] = "failed validation"
                  /\ summary[Len(fblock) + 1][2] = "malformed documents"
                  /\ Cardinality({k \in DOMAIN out : IsCountLine(out[k])}) = 2

\* A run without -q over as many documents as the bound allows, some failing
\* and some malformed, has returned; its last line is the message of a
\* malformed document.
C31_Witness ==
    /\ PoolReturned
    /\ ~quietFlag
    /\ Len(docs) = MaxDocs
    /\ UnitsOfKind("fail") # {}
    /\ UnitsOfKind("error") # {}
    /\ UnitsOfKind("pass") # {}
    /\ IsCountLine(out[Len(docs) + 1])
    /\ out[Len(out)][2] \in {"error: load doc", "error: validate"}

(***************************************************************************)
(* Properties of jsonDecodeCharset, on the runs of SpecCharset.            *)
(***************************************************************************)
IsJson(u) == Ext(docs[u]) \notin {".yml", ".yaml"}

Buf(u) == files[docs[u]]

\* The unit has called jsonLoader and classified its document.
Classed(u) == wpc[u] \notin {"idle", "acquire", "load"}

StartsWithBOM(b) ==
    \/ HasPrefix(b, <<239, 187, 191>>)
    \/ HasPrefix(b, <<254, 255>>)
    \/ HasPrefix(b, <<255, 254>>)

\* jsonDecodeCharset leaves the buffer alone: it is shorter than 2 bytes, or it
\* has no BOM and no zero byte among its first two bytes.
PlainUTF8(b) == Len(b) < 2 \/ (~StartsWithBOM(b) /\ b[1] # 0 /\ b[2] # 0)

\* The run validates a UTF-8 source (unit 1) and the file gen_testdata.go
\* wrote from it in directory d (unit 2), both JSON.
GenRun(dirs) ==
    /\ Len(docs) = 2
    /\ docs[2][1] \in dirs
    /\ IsJson(2)

\* C8: without -b, a JSON buffer of at least 2 bytes that begins with a BOM
\* gives an error and no buffer, the document is malformed and the exit code
\* has bit 1 set.
C8_BomRejected ==
    \A u \in Dispatched :
        (Classed(u) /\ IsJson(u) /\ ~bomFlag /\ Len(Buf(u)) >= 2 /\ StartsWithBOM(Buf(u))) =>
            /\ loaded[u].err # ""
            /\ loaded[u].buf = <<>>
            /\ kind[u] = "error"
            /\ mpc = "returned" => exit \in {2, 3}

C8_Witness ==
    /\ mpc = "returned"
    /\ exit = 2
    /\ ~bomFlag
    /\ docs = <<RawPath(".json")>>
    /\ HasPrefix(Buf(1), <<255, 254, 123>>)

\* C9 as stated: a UTF-16 document with a BOM has the outcome of its UTF-8
\* equivalent, with or without -b.
C9_Utf16SameOutcome ==
    (GenRun({"utf-16be_bom", "utf-16le_bom"}) /\ Classed(1) /\ Classed(2)) =>
        kind[1] = kind[2]

\* C9 amended: with -b the UTF-16 document with a BOM decodes to exactly the
\* bytes of its UTF-8 source, and has the outcome of the source when the source
\* is plain UTF-8; without -b it is a load error.
C9_Utf16SameOutcomeWithFlag ==
    (GenRun({"utf-16be_bom", "utf-16le_bom"}) /\ Classed(2)) =>
        IF bomFlag
        THEN /\ loaded[2] = [err |-> "", buf |-> Buf(1)]
             /\ (Classed(1) /\ PlainUTF8(Buf(1))) => kind[1] = kind[2]
        ELSE loaded[2].err # "" /\ kind[2] = "error"

C9_Witness ==
    /\ GenRun({"utf-16le_bom"})
    /\ bomFlag
    /\ mpc = "returned"
    /\ Buf(1) = DocFoo
    /\ kind[1] = "pass"
    /\ kind[2] = "pass"

\* C10 as stated: with -b, a JSON document behind the UTF-8 BOM has the outcome
\* of the document without the BOM, and the buffer returned is the input
\* without its first 3 bytes.
C10_Utf8BomSameOutcome ==
    (GenRun({"utf-8_bom"}) /\ bomFlag /\ Classed(1) /\ Classed(2)) =>
        /\ kind[1] = kind[2]
        /\ loaded[2] = [err |-> "", buf |-> SubSeq(Buf(2), 4, Len(Buf(2)))]

\* C10 amended: with -b, the buffer returned for a JSON document behind the
\* UTF-8 BOM is the input without its first 3 bytes, undecoded; the outcome is
\* that of the document without the BOM when that document is plain UTF-8.
C10_Utf8BomStripped ==
    \A u \in Dispatched :
        (Classed(u) /\ IsJson(u) /\ bomFlag /\ HasPrefix(Buf(u), <<239, 187, 191>>)) =>
            /\ loaded[u] = [err |-> "", buf |-> SubSeq(Buf(u), 4, Len(Buf(u)))]
            /\ (u = 2 /\ GenRun({"utf-8_bom"}) /\ Classed(1) /\ PlainUTF8(Buf(1))) =>
                  kind[1] = kind[2]

C10_Witness ==
    /\ GenRun({"utf-8_bom"})
    /\ bomFlag
    /\ mpc = "returned"
    /\ Buf(1) = <<123, 125>>
    /\ kind[1] = "fail"
    /\ kind[2] = "fail"

IsYaml(u) == Ext(docs[u]) \in {".yml", ".yaml"}

\* C18: a document whose extension is .yml or .yaml is loaded by the YAML
\* converter alone, any other by jsonDecodeCharset; the outcome of a YAML
\* document is the same with and without -b, and its BOM is never the reason
\* of a load error.
C18_ExtensionDispatch ==
    \A u \in Dispatched :
        Classed(u) =>
            IF IsYaml(u)
            THEN /\ loaded[u] = YAMLToJSON(Buf(u))
                 /\ loaded[u].err # "unexpected BOM"
                 /\ \A b \in BOOLEAN :
                       Classified(docs[u], jsonLoader(files, docs[u], b), schema).kind = kind[u]
            ELSE loaded[u] = jsonDecodeCharset(Buf(u), bomFlag)

C18_Witness ==
    /\ mpc = "returned"
    /\ ~bomFlag
    /\ exit = 0
    /\ \E u \in Dispatched :
          /\ Ext(docs[u]) = ".yaml"
          /\ StartsWithBOM(Buf(u))
          /\ kind[u] = "pass"

\* C21: a JSON buffer shorter than 2 bytes (empty, or one byte, 0x00 included)
\* comes back unchanged and without error, with and without -b.
C21_ShortUnchanged ==
    \A u \in Dispatched :
        (Classed(u) /\ IsJson(u) /\ Len(Buf(u)) < 2) =>
            /\ loaded[u] = [err |-> "", buf |-> Buf(u)]
            /\ \A b \in BOOLEAN : jsonDecodeCharset(Buf(u), b) = loaded[u]

C21_Witness ==
    /\ mpc = "returned"
    /\ docs = <<RawPath(".json")>>
    /\ Buf(1) = <<0>>
    /\ loaded[1].buf = <<0>>
    /\ kind[1] = "error"
    /\ exit = 2

\* What a buffer behind a BOM gives: the error without -b, buf with -b.
BehindBOM(u, buf) ==
    IF bomFlag THEN loaded[u] = [err |-> "", buf |-> buf] ELSE loaded[u].err # ""

\* C22: for a JSON buffer of at least 2 bytes the encoding is chosen by the
\* first test that matches, in the order UTF-8 BOM, UTF-16BE BOM, UTF-16LE BOM,
\* zero byte at offset 0 (big-endian), zero byte at offset 1 (little-endian);
\* two leading zero bytes are big-endian.
C22_PriorityChain ==
    \A u \in Dispatched :
        (Classed(u) /\ IsJson(u) /\ Len(Buf(u)) >= 2) =>
            LET b == Buf(u)
            IN IF HasPrefix(b, <<239, 187, 191>>)
                   THEN BehindBOM(u, SubSeq(b, 4, Len(b)))
               ELSE IF HasPrefix(b, <<254, 255>>)
                   THEN BehindBOM(u, Utf16Decode(SubSeq(b, 3, Len(b)), "utf16be"))
               ELSE IF HasPrefix(b, <<255, 254>>)
                   THEN BehindBOM(u, Utf16Decode(SubSeq(b, 3, Len(b)), "utf16le"))
               ELSE IF b[1] = 0
                   THEN loaded[u] = [err |-> "", buf |-> Utf16Decode(b, "utf16be")]
               ELSE IF b[2] = 0
                   THEN loaded[u] = [err |-> "", buf |-> Utf16Decode(b, "utf16le")]
               ELSE loaded[u] = [err |-> "", buf |-> b]

C22_Witness ==
    /\ GenRun({"utf-16be"})
    /\ mpc = "returned"
    /\ Buf(1) = <<0, 123>>
    /\ Buf(2) = <<0, 0, 0, 123>>
    /\ loaded[2].buf = <<0, 123>>

\* C23: a JSON buffer without a BOM never gives the unexpected-BOM error and
\* its result is the same with and without -b: the buffer itself when neither
\* of its first two bytes is zero, else the whole buffer decoded as UTF-16.
\* With -b and a BOM, what is returned or decoded is the buffer without its
\* first 3 (UTF-8) or 2 (UTF-16) bytes.
C23_NoBomFlagFree ==
    \A u \in Dispatched :
        (Classed(u) /\ IsJson(u) /\ Len(Buf(u)) >= 2) =>
            LET b == Buf(u)
            IN IF ~StartsWithBOM(b)
               THEN /\ loaded[u].err = ""
                    /\ \A f \in BOOLEAN : jsonDecodeCharset(b, f) = loaded[u]
                    /\ (b[1] # 0 /\ b[2] # 0) => loaded[u].buf = b
                    /\ (b[1] = 0 \/ b[2] = 0) =>
                          loaded[u].buf =
                              Utf16Decode(b, IF b[1] = 0 THEN "utf16be" ELSE "utf16le")
               ELSE bomFlag =>
                      /\ loaded[u].err = ""
                      /\ LET n == IF b[1] = 239 THEN 3 ELSE 2
                             rest == SubSeq(b, n + 1, Len(b))
                         IN /\ Len(rest) = Len(b) - n
                            /\ loaded[u].buf =
                                  CASE b[1] = 239 -> rest
                                    [] b[1] = 254 -> Utf16Decode(rest, "utf16be")
                                    [] OTHER -> Utf16Decode(rest, "utf16le")

C23_Witness ==
    /\ GenRun({"utf-16le"})
    /\ ~bomFlag
    /\ mpc = "returned"
    /\ Buf(2) = <<123, 0, 125, 0>>
    /\ loaded[2] = [err |-> "", buf |-> <<123, 125>>]
    /\ kind[2] = "fail"

(***************************************************************************)
(* Properties of the command line, on the runs of SpecSetup.               *)
(***************************************************************************)
\* The run is over: realMain returned or log.Fatal ended the process.
Ended == mpc \in {"returned", "fatal"}

\* jsonLoader or sl.Compile / sl.AddSchemas rejects the schema file at path.
Broken(path) ==
    LET l == jsonLoader(files, path, bomFlag) IN l.err # "" \/ Compile(l.buf) # ""

\* A referenced schema cannot be loaded or compiled: a -r pattern matches no
\* file, or matches a file other than the primary schema that is rejected.
RefBroken ==
    \E k \in DOMAIN refFlags :
        LET m == Matches(files, refFlags[k])
        IN Len(m) = 0 \/ \E j \in DOMAIN m : m[j] # schemaFlag /\ Broken(m[j])

\* A file list cannot be read.
ListBroken == \E k \in DOMAIN listFlags : listFlags[k] \notin DOMAIN files

\* No pattern of the arguments or of a readable file list matches a file.
NoDocsResolved ==
    /\ \A k \in DOMAIN args : Len(Matches(files, args[k])) = 0
    /\ \A k \in DOMAIN listFlags :
          listFlags[k] \in DOMAIN files =>
              \A j \in DOMAIN files[listFlags[k]] :
                  Len(Matches(files, files[listFlags[k]][j])) = 0

\* The command line is not one that ends before the schema is looked at: no
\* -v, -s is given, and some pattern of the arguments or file lists has a match.
PastUsage == ~versionFlag /\ schemaFlag # <<>> /\ ~NoDocsResolved

\* C11: on a command line without -v, with -s and with a document to validate,
\* when the primary schema or a referenced schema cannot be loaded or compiled,
\* or a file list cannot be read, the run ends with realMain returning 5,
\* nothing written and no worker unit started.
C11_SchemaErrorAborts ==
    (Ended /\ PastUsage /\ (Broken(schemaFlag) \/ RefBroken \/ ListBroken)) =>
        /\ mpc = "returned"
        /\ exit = 5
        /\ out = <<>>
        /\ started = 0

\* C12: on a command line without -v and without an unreadable file list, when
\* -s is missing or no document is resolved, the run ends with realMain
\* returning 4, the schema not compiled and no worker unit started.
C12_UsageErrorAborts ==
    (Ended /\ ~versionFlag /\ ~ListBroken /\ (schemaFlag = <<>> \/ NoDocsResolved)) =>
        /\ mpc = "returned"
        /\ exit = 4
        /\ schema = <<>>
        /\ started = 0

(***************************************************************************)
(* Properties of the classification of a document, on the runs of          *)
(* SpecSetup (its second schema has two required keys).                    *)
(***************************************************************************)
\* C19: a unit takes exactly one of four branches.  A load error gives Error,
\* the line "<path>: error: load doc: <cause>", and schema.Validate is not
\* called; an error of Validate gives Error and "<path>: error: validate:
\* <cause>"; k >= 1 violations give Fail and the k lines "<path>: fail:
\* <description>" in the order reported; otherwise Pass.
C19_FourBranches ==
    \A u \in Dispatched :
        Classed(u) =>
            LET p == docs[u]
                l == loaded[u]
                r == result[u]
            IN IF l.err # ""
               THEN /\ kind[u] = "error"
                    /\ msg[u] = << <<p, "error: load doc", l.err>> >>
                    /\ r = NotCalled
               ELSE /\ r = Validate(schema, l.buf)
                    /\ IF r.err # ""
                       THEN /\ kind[u] = "error"
                            /\ msg[u] = << <<p, "error: validate", r.err>> >>
                       ELSE IF Len(r.errors) >= 1
                            THEN /\ kind[u] = "fail"
                                 /\ Len(msg[u]) = Len(r.errors)
                                 /\ \A i \in DOMAIN msg[u] :
                                       msg[u][i] = <<p, "fail", r.errors[i]>>
                            ELSE /\ kind[u] = "pass"
                                 /\ msg[u] = << <<p, "pass", "">> >>

C19_Witness ==
    /\ mpc = "returned"
    /\ \E u \in Dispatched :
          /\ kind[u] = "fail"
          /\ Len(msg[u]) = 2
          /\ msg[u][1][3] = "(root): foo is required"
          /\ msg[u][2][3] = "(root): bar is required"
    /\ \E u \in Dispatched : result[u] = NotCalled /\ kind[u] = "error"

\* The unit validated its document and Validate reported violations.
Violated(u) ==
    /\ Classed(u)
    /\ loaded[u].err = ""
    /\ result[u].err = ""
    /\ Len(result[u].errors) >= 1

\* C20 as stated: a unit whose document has violations produces one line per
\* violation, each "error: fail: " followed by the description.
C20_FailLinesErrorPrefix ==
    \A u \in Dispatched :
        Violated(u) =>
            /\ Len(msg[u]) = Len(result[u].errors)
            /\ \A i \in DOMAIN msg[u] :
                  msg[u][i][2] = "error: fail" /\ msg[u][i][3] = result[u].errors[i]

\* C20 amended: a unit whose document has violations produces one line per
\* violation, each "<path>: fail: " followed by the description, and writes
\* them together, in order, with one Fprintln.
C20_FailLines ==
    \A u \in Dispatched :
        Violated(u) =>
            /\ Len(msg[u]) = Len(result[u].errors)
            /\ \A i \in DOMAIN msg[u] :
                  /\ msg[u][i][1] = docs[u]
                  /\ msg[u][i][2] = "fail"
                  /\ msg[u][i][3] = result[u].errors[i]
            /\ Reported(u) =>
                  \E o \in 0..Len(out) :
                      /\ o + Len(msg[u]) <= Len(out)
                      /\ SubSeq(out, o + 1, o + Len(msg[u])) = msg[u]

C20_Witness ==
    /\ mpc = "returned"
    /\ schemaFlag = Schema2Path
    /\ Len(docs) = 2
    /\ kind[1] = "fail"
    /\ kind[2] = "fail"
    /\ Len(msg[1]) = 2
    /\ msg[2] = << <<docs[2], "fail", "(root): bar is required">> >>

\* C24: with -v realMain writes the version and returns 0 whatever the other
\* flags and arguments are; no document is resolved, no schema compiled and no
\* worker unit started.
C24_VersionFirst ==
    (versionFlag /\ mpc # "start") =>
        /\ mpc = "returned"
        /\ exit = 0
        /\ out = << <<NoPath, "version", "v1.4.0-dev">> >>
        /\ docs = <<>>
        /\ schema = <<>>
        /\ started = 0

C24_Witness ==
    /\ versionFlag
    /\ schemaFlag = <<>>
    /\ args = <<>>
    /\ listFlags = <<MissingList>>
    /\ refFlags = <<NoMatch>>
    /\ mpc = "returned"
    /\ exit = 0

\* The exit code of the first early exit whose condition holds on the command
\* line and the files, in the order of realMain; -1 when none holds.
EarlyExit ==
    IF versionFlag THEN 0
    ELSE IF schemaFlag = <<>> THEN 4
    ELSE IF ListBroken THEN 5
    ELSE IF NoDocsResolved THEN 4
    ELSE IF RefBroken \/ Broken(schemaFlag) THEN 5
    ELSE -1

\* C30: when the run is over and the condition of an early exit holds, realMain
\* has returned the exit code of the first such condition in the order version
\* flag, missing schema, unreadable file list, no document, schema error, and
\* no worker unit was started.
C30_EarlyExitOrder ==
    (Ended /\ EarlyExit # -1) =>
        /\ mpc = "returned"
        /\ exit = EarlyExit
        /\ started = 0

(***************************************************************************)
(* Properties of the pool that compare a run with its input, on the runs   *)
(* of Spec.                                                                *)
(***************************************************************************)
\* The outcome of document n by the input alone: what the loader and the
\* validator give for its bytes, whatever the units have done.
OutcomeOf(n) == Classified(docs[n], jsonLoader(files, docs[n], bomFlag), schema).kind

\* The documents with outcome k by the input alone.
DocsOfOutcome(k) == {n \in DOMAIN docs : OutcomeOf(n) = k}

\* C28: the exit code after the validation phase is the one the set of the
\* documents' outcomes gives, in every interleaving of the units and of their
\* appends: it is a function of the input.
C28_ExitDeterministic ==
    PoolReturned =>
        exit = (IF DocsOfOutcome("fail") = {} THEN 0 ELSE 1)
                 + (IF DocsOfOutcome("error") = {} THEN 0 ELSE 2)

\* Two runs in one: an append was lost in a collection and the exit code is the
\* one of the run without loss.
C28_Witness ==
    /\ PoolReturned
    /\ Len(failures) < Cardinality(DocsOfOutcome("fail"))
    /\ Len(errors) = Cardinality(DocsOfOutcome("error"))
    /\ exit = 3

\* Units that have not yet called wg.Done.
Pending == {u \in 1..started : wpc[u] # "done"}

\* C29: the slots taken are those of the units between their send on sem and
\* their deferred receive, on the load-error path as on the others; wg counts
\* the units that have not signalled, which include every holder; so no slot
\* is held once wg.Wait has returned.
C29_SlotHeldUntilDone ==
    /\ sem = Cardinality(Holders)
    /\ wg = Cardinality(Pending)
    /\ Holders \subseteq Pending
    /\ AfterWait => (sem = 0 /\ Holders = {})

\* wg.Wait has returned after more units than slots ran, one of them through
\* the load-error return.
C29_Witness ==
    /\ mpc = "summary"
    /\ Len(docs) > SemCap
    /\ \E u \in Dispatched : loaded[u].err # "" /\ wpc[u] = "done"
    /\ sem = 0

(***************************************************************************)
(* Properties of a document list with repeated paths, on the runs of       *)
(* SpecSetup (a pattern of the arguments and a file list may name the same *)
(* file).                                                                  *)
(***************************************************************************)
\* The document list by the input alone: the matches of the arguments, then
\* those of the lines of the file lists, appended as they come.
Resolved ==
    ReadLists(files, listFlags, GlobAll(files, args, <<>>).paths).paths

\* How many times the path of document n is in the document list.
Times(n) == Cardinality({j \in DOMAIN docs : docs[j] = docs[n]})

\* Document n has been loaded and validated by its own unit, and its report
\* line(s) are in the output once per occurrence of its path (a pass line only
\* without -q).
HandledEach(n) ==
    /\ wpc[n] = "done"
    /\ loaded[n] = jsonLoader(files, docs[n], bomFlag)
    /\ kind[n] = OutcomeOf(n)
    /\ (kind[n] # "pass" \/ ~quietFlag) =>
          \A k \in DOMAIN msg[n] :
              Count(SubSeq(out, 1, SummaryStart - 1), msg[n][k])
                  = Times(n) * Count(msg[n], msg[n][k])

\* C32: when realMain returns after the pool, the document list is the matches
\* of all the patterns with nothing removed, there is one unit per element,
\* each element is loaded, validated and reported, so a path that is k times
\* in the list is reported k times; the M of the count lines is the length of
\* the list, and the message of a failing or malformed path is k times in its
\* slice.
C32_NoDeduplication ==
    PoolReturned =>
        /\ docs = Resolved
        /\ started = Len(docs)
        /\ \A n \in DOMAIN docs : HandledEach(n)
        /\ \A k \in DOMAIN out : IsCountLine(out[k]) => out[k][3][2] = Len(docs)
        /\ \A n \in DOMAIN docs :
              /\ kind[n] = "fail" => Count(failures, msg[n]) = Times(n)
              /\ kind[n] = "error" => Count(errors, msg[n]) = Times(n)

(***************************************************************************)
(* Properties of repeated calls, on the runs of SpecRepeat.                *)
(***************************************************************************)
\* The calls of realMain that have returned, in order.
Calls ==
    history \o (IF mpc = "returned"
                THEN <<[cmd |-> cmdline, exit |-> exit, out |-> out]>>
                ELSE <<>>)

\* C27: two calls of realMain with the same argument list, on the same files,
\* return the same exit code and write the same lines, whatever the calls
\* before them were.
C27_Stateless ==
    \A i, j \in DOMAIN Calls :
        Calls[i].cmd = Calls[j].cmd =>
            /\ Calls[i].exit = Calls[j].exit
            /\ SameLines(Calls[i].out, Calls[j].out)

=============================================================================
